---- MODULE Spec2Model ----
(***************************************************************************)
(* The schema serializer of the Triplit CLI (packages/cli/src/commands/    *)
(* migrate/codegen.ts): the `generate` command turns a schema in JSON form *)
(* into the text of a schema.ts module and writes it to disk.              *)
(*                                                                         *)
(* Text is modelled as a sequence of tokens: every static chunk of a       *)
(* template literal of the source is one token, every interpolated value   *)
(* is one token, so the concatenation of the tokens is the emitted string. *)
(* JavaScript values are tagged records (JsString, JsNumber, ...); an      *)
(* absent object field reads as JsUndefined, as in JavaScript.             *)
(***************************************************************************)
EXTENDS Integers, Sequences, FiniteSets, TLC

VARIABLES pc, schemaJSON, fileContent, thrown, schemaFile, call, ret

vars == <<pc, schemaJSON, fileContent, thrown, schemaFile, call, ret>>

(***************************************************************************)
(* Bounds of the model.                                                    *)
(***************************************************************************)
\* longest argument list of a default function call
MaxArgs == 1
\* most properties of one attribute tree
MaxProps == 2
\* most collections of one schema
MaxCollections == 2
\* largest integer-like key ("0" .. ToString(MaxIndexKey)) the inputs use
MaxIndexKey == 2

(***************************************************************************)
(* JavaScript values.                                                      *)
(***************************************************************************)
JsUndefined == [t |-> "undefined"]
JsNull == [t |-> "null"]
JsString(s) == [t |-> "string", s |-> s]
JsNumber(n) == [t |-> "number", n |-> n]
JsBoolean(b) == [t |-> "boolean", b |-> b]
JsArray(elems) == [t |-> "array", elems |-> elems]
JsObject(entries) == [t |-> "object", entries |-> entries]

\* typeof value
TypeOf(v) ==
  IF v.t \in {"array", "object", "null"} THEN "object" ELSE v.t

\* ToBoolean(value): the test of `value ? a : b`, `if (value)`, `a && b`
Truthy(v) ==
  CASE v.t = "undefined" -> FALSE
    [] v.t = "null" -> FALSE
    [] v.t = "boolean" -> v.b
    [] v.t = "number" -> v.n # 0
    [] v.t = "string" -> v.s # ""
    [] OTHER -> TRUE

\* texts joined by a separator: Array.prototype.join on strings
RECURSIVE Join(_, _)
Join(texts, sep) ==
  IF Len(texts) = 0 THEN <<>>
  ELSE IF Len(texts) = 1 THEN texts[1]
  ELSE texts[1] \o sep \o Join(Tail(texts), sep)

\* String(value), the conversion a template literal applies to ${value}
RECURSIVE JsToString(_)
JsToString(v) ==
  CASE v.t = "undefined" -> <<"undefined">>
    [] v.t = "null" -> <<"null">>
    [] v.t = "boolean" -> IF v.b THEN <<"true">> ELSE <<"false">>
    [] v.t = "number" -> <<ToString(v.n)>>
    [] v.t = "string" -> <<v.s>>
    [] v.t = "array" ->
         Join([i \in 1..Len(v.elems) |->
                 IF v.elems[i].t \in {"undefined", "null"} THEN <<"">>
                 ELSE JsToString(v.elems[i])], <<",">>)
    [] OTHER -> <<"[object Object]">>

\* value[key] of a property read or a destructuring
Get(v, key) ==
  IF v.t = "object" /\ \E i \in 1..Len(v.entries) : v.entries[i].key = key
  THEN v.entries[CHOOSE i \in 1..Len(v.entries) : v.entries[i].key = key].value
  ELSE JsUndefined

\* array.includes(x); `array?.includes(x) ?? false` when array is undefined
Includes(array, x) ==
  /\ array.t = "array"
  /\ \E i \in 1..Len(array.elems) : array.elems[i] = x

(***************************************************************************)
(* The order in which for...in, Object.keys and Object.entries visit the   *)
(* own properties of an object: the integer-like keys first, in ascending  *)
(* numeric order, then the other keys in insertion order.  `entries` is    *)
(* the sequence of [key, value] in insertion (declaration) order.          *)
(***************************************************************************)
IsArrayIndex(key) == \E n \in 0..MaxIndexKey : ToString(n) = key

SelectEntries(entries, Keep(_)) ==
  LET F[i \in 0..Len(entries)] ==
        IF i = 0 THEN <<>>
        ELSE IF Keep(entries[i].key) THEN Append(F[i - 1], entries[i])
        ELSE F[i - 1]
  IN F[Len(entries)]

\* the properties visited in the reverse of their insertion order
OwnPropertyEntries_Reversed(entries) ==
  [i \in 1..Len(entries) |-> entries[Len(entries) + 1 - i]]

OwnPropertyEntries(entries) ==
  LET IndexPart[n \in -1..MaxIndexKey] ==
        IF n = -1 THEN <<>>
        ELSE IndexPart[n - 1] \o
             SelectEntries(entries, LAMBDA k : k = ToString(n))
      IsNamed(k) == ~IsArrayIndex(k)
  IN IndexPart[MaxIndexKey] \o SelectEntries(entries, IsNamed)

(***************************************************************************)
(* Results: a returned text, or a thrown Error with its message.           *)
(***************************************************************************)
InvalidType == "Invalid type"
InvalidDefaultFunction == "Invalid default function name"
InvalidValue == "Invalid value"

Ok(text) == [ok |-> TRUE, text |-> text, error |-> "none"]
Throw(message) == [ok |-> FALSE, text |-> <<>>, error |-> message]

\* the first exception thrown when the results are computed left to right
FirstThrown(results) ==
  results[CHOOSE i \in 1..Len(results) :
            /\ ~results[i].ok
            /\ \A j \in 1..(i - 1) : results[j].ok]

AllOk(results) == \A i \in 1..Len(results) : results[i].ok

Texts(results) == [i \in 1..Len(results) |-> results[i].text]

(***************************************************************************)
(* valueToJS, defaultValueToString, valueOptionsToString                   *)
(***************************************************************************)
valueToJS(value) ==
  CASE value.t = "string" -> Ok(<<"\"", value.s, "\"">>)
    [] value.t = "number" -> Ok(<<ToString(value.n)>>)
    [] value.t = "boolean" -> Ok(IF value.b THEN <<"true">> ELSE <<"false">>)
    [] value.t = "null" -> Ok(<<"null">>)
    [] OTHER -> Throw(InvalidValue)

\* defaultValueToString without the check of the function name
defaultValueToString_AnyFunction(defaultValue) ==
  IF TypeOf(defaultValue) = "object" /\ defaultValue.t # "null"
  THEN LET func == Get(defaultValue, "func")
           args == Get(defaultValue, "args")
           mapped == [i \in 1..Len(args.elems) |-> valueToJS(args.elems[i])]
       IN IF ~Truthy(args)
          THEN Ok(<<"S.Default.">> \o JsToString(func) \o <<"(", ")">>)
          ELSE IF ~AllOk(mapped) THEN FirstThrown(mapped)
          ELSE Ok(<<"S.Default.">> \o JsToString(func) \o <<"(">>
                  \o Join(Texts(mapped), <<", ">>) \o <<")">>)
  ELSE valueToJS(defaultValue)

defaultValueToString(defaultValue) ==
  IF TypeOf(defaultValue) = "object" /\ defaultValue.t # "null"
  THEN LET func == Get(defaultValue, "func")
           args == Get(defaultValue, "args")
           mapped == [i \in 1..Len(args.elems) |-> valueToJS(args.elems[i])]
       IN IF func \notin {JsString("now"), JsString("uuid")}
          THEN Throw(InvalidDefaultFunction)
          ELSE IF ~Truthy(args)
          THEN Ok(<<"S.Default.">> \o JsToString(func) \o <<"(", ")">>)
          ELSE IF ~AllOk(mapped) THEN FirstThrown(mapped)
          ELSE Ok(<<"S.Default.">> \o JsToString(func) \o <<"(">>
                  \o Join(Texts(mapped), <<", ">>) \o <<")">>)
  ELSE valueToJS(defaultValue)

\* valueOptionsToString with the default written only when it is truthy
valueOptionsToString_TruthyDefault(options) ==
  LET default == IF Truthy(options.default)
                 THEN defaultValueToString(options.default)
                 ELSE Ok(<<>>)
      result ==
        (IF Truthy(options.nullable)
         THEN <<Ok(<<"nullable: ">> \o JsToString(options.nullable))>>
         ELSE <<>>)
        \o (IF Truthy(options.default)
            THEN <<Ok(<<"default: ">> \o default.text)>>
            ELSE <<>>)
  IN IF ~default.ok THEN default
     ELSE IF Len(result) > 0
     THEN Ok(<<"{">> \o Join(Texts(result), <<", ">>) \o <<"}">>)
     ELSE Ok(<<>>)

valueOptionsToString(options) ==
  LET nullable == options.nullable
      defaultValue == options.default
      nullablePart ==
        IF nullable # JsUndefined
        THEN <<Ok(<<"nullable: ">> \o JsToString(nullable))>>
        ELSE <<>>
      default == IF defaultValue # JsUndefined
                 THEN defaultValueToString(defaultValue)
                 ELSE Ok(<<>>)
      defaultPart ==
        IF defaultValue # JsUndefined
        THEN <<Ok(<<"default: ">> \o default.text)>>
        ELSE <<>>
      result == nullablePart \o defaultPart
  IN IF ~default.ok THEN default
     ELSE IF Len(result) > 0
     THEN Ok(<<"{">> \o Join(Texts(result), <<", ">>) \o <<"}">>)
     ELSE Ok(<<>>)

(***************************************************************************)
(* JSON.stringify(value, null, gap).  `gap` is the number of two-space     *)
(* units of the indentation argument (0: the compact form, 1: the          *)
(* argument 2), `depth` the nesting depth of the value being written.  A   *)
(* property whose value is undefined is left out of an object and written  *)
(* as null in an array.  The strings of the inputs hold no character that  *)
(* JSON has to escape, so a string is quoted as it is.                     *)
(***************************************************************************)
Indent(n) == [i \in 1..n |-> "  "]

RECURSIVE JSONstringify(_, _, _)
JSONstringify(value, gap, depth) ==
  LET inner == Indent(gap * (depth + 1))
      outer == Indent(gap * depth)
      open(bracket) == IF gap = 0 THEN <<bracket>>
                       ELSE <<bracket, "\n">> \o inner
      separator == IF gap = 0 THEN <<",">> ELSE <<",", "\n">> \o inner
      close(bracket) == IF gap = 0 THEN <<bracket>>
                        ELSE <<"\n">> \o outer \o <<bracket>>
      colon == IF gap = 0 THEN <<":">> ELSE <<":", " ">>
  IN CASE value.t = "string" -> <<"\"", value.s, "\"">>
       [] value.t = "number" -> <<ToString(value.n)>>
       [] value.t = "boolean" -> IF value.b THEN <<"true">> ELSE <<"false">>
       [] value.t = "null" -> <<"null">>
       [] value.t = "array" ->
            IF Len(value.elems) = 0 THEN <<"[", "]">>
            ELSE open("[")
                 \o Join([i \in 1..Len(value.elems) |->
                            IF value.elems[i].t = "undefined" THEN <<"null">>
                            ELSE JSONstringify(value.elems[i], gap, depth + 1)],
                         separator)
                 \o close("]")
       [] value.t = "object" ->
            LET own == OwnPropertyEntries(value.entries)
                kept == SelectSeq(own, LAMBDA e : e.value.t # "undefined")
            IN IF Len(kept) = 0 THEN <<"{", "}">>
               ELSE open("{")
                    \o Join([i \in 1..Len(kept) |->
                               <<"\"", kept[i].key, "\"">> \o colon
                               \o JSONstringify(kept[i].value, gap, depth + 1)],
                            separator)
                    \o close("}")
       [] OTHER -> <<>>

(***************************************************************************)
(* subQueryToString: `subquery` is the query object without its            *)
(* collectionName.                                                         *)
(***************************************************************************)
subQueryToString(subquery) ==
  LET where == Get(subquery, "where")
      limit == Get(subquery, "limit")
      order == Get(subquery, "order")
      whereString == IF Truthy(where)
                     THEN <<"where: ">> \o JSONstringify(where, 0, 0)
                     ELSE <<>>
      limitString == IF Truthy(limit)
                     THEN <<"limit: ">> \o JsToString(limit)
                     ELSE <<>>
      orderString == IF Truthy(order)
                     THEN <<"order: ">> \o JSONstringify(order, 0, 0)
                     ELSE <<>>
      cleanedString ==
        Join(SelectSeq(<<whereString, limitString, orderString>>,
                       LAMBDA str : str # <<>>), <<", ">>)
  IN <<"{">> \o cleanedString \o <<"}">>

(***************************************************************************)
(* schemaItemToString.  An attribute is a record with its `type` and the   *)
(* fields of that type: options (string, boolean, number, date), items and *)
(* options (set), properties and optional (record), query and cardinality  *)
(* (query).  `properties` is the sequence of [key, value] in declaration   *)
(* order; `optional` is a JsArray of keys, or JsUndefined.                 *)
(***************************************************************************)
wrapOptional(type, optional) ==
  IF optional THEN <<"S.Optional(">> \o type \o <<")">> ELSE type

\* no type excluded from the optional wrapper
excludeOptional_None == {}

excludeOptional == {"query"}

\* a tree without an optional list taken to make every key optional
isOptional_DefaultTrue(optionalKeys, key) ==
  optionalKeys = JsUndefined \/ Includes(optionalKeys, JsString(key))

\* `attribute.optional?.includes(key) ?? false`
isOptional(optionalKeys, key) == Includes(optionalKeys, JsString(key))

\* the query without its collectionName: `const {collectionName, ...queryParams}`
queryParamsOf(query) ==
  JsObject(SelectSeq(query.entries, LAMBDA e : e.key # "collectionName"))

\* isRelationById without the count of the query's other parameters
isRelationById_AnyOtherParams(query) ==
  LET where == Get(query, "where")
  IN /\ Truthy(Get(query, "collectionName"))
     /\ Truthy(where)
     /\ Len(where.elems) = 1
     /\ where.elems[1].elems[1] = JsString("id")
     /\ where.elems[1].elems[2] = JsString("=")

isRelationById(query) ==
  LET where == Get(query, "where")
  IN /\ Truthy(Get(query, "collectionName"))
     /\ Truthy(where)
     /\ Len(where.elems) = 1
     /\ where.elems[1].elems[1] = JsString("id")
     /\ where.elems[1].elems[2] = JsString("=")
     /\ Len(OwnPropertyEntries(queryParamsOf(query).entries)) = 1

relationToString(query, cardinality) ==
  LET collectionName == Get(query, "collectionName")
      queryParams == queryParamsOf(query)
  IN IF cardinality = "one"
     THEN IF isRelationById(query)
          THEN <<"S.RelationById('">> \o JsToString(collectionName)
               \o <<"', '">>
               \o JsToString(Get(queryParams, "where").elems[1].elems[3])
               \o <<"')">>
          ELSE <<"S.RelationOne('">> \o JsToString(collectionName) \o <<"',">>
               \o subQueryToString(queryParams) \o <<")">>
     ELSE <<"S.RelationMany('">> \o JsToString(collectionName) \o <<"',">>
          \o subQueryToString(queryParams) \o <<")">>

primitiveConstructor(type) ==
  CASE type = "string" -> "S.String("
    [] type = "boolean" -> "S.Boolean("
    [] type = "number" -> "S.Number("
    [] type = "date" -> "S.Date("

\* an unknown type skipped instead of refused
invalidType_Skipped(type) == Ok(<<>>)

\* `default: throw new Error(...)` of the switch on the type
invalidType(type) == Throw(InvalidType)

\* the text of a result handed on, a thrown error passed through
Map(result, F(_)) == IF result.ok THEN Ok(F(result.text)) ELSE result

Bind(result, F(_)) == IF result.ok THEN F(result.text) ELSE result

\* the texts of the results joined, or the first error thrown
JoinResults(results, sep) ==
  IF AllOk(results) THEN Ok(Join(Texts(results), sep))
  ELSE FirstThrown(results)

RECURSIVE schemaItemToString(_, _)
schemaItemToString(attribute, optional) ==
  Map(CASE attribute.type \in {"string", "boolean", "number", "date"} ->
             Map(valueOptionsToString(attribute.options),
                 LAMBDA options :
                   <<primitiveConstructor(attribute.type)>> \o options
                   \o <<")">>)
        [] attribute.type = "set" ->
             Bind(schemaItemToString(attribute.items, JsUndefined),
                  LAMBDA item :
                    Map(valueOptionsToString(attribute.options),
                        LAMBDA options :
                          <<"S.Set(">> \o item \o <<",">> \o options
                          \o <<")">>))
        [] attribute.type = "record" ->
             Map(JoinResults(
                   [i \in 1..Len(OwnPropertyEntries(attribute.properties)) |->
                      LET entry == OwnPropertyEntries(attribute.properties)[i]
                      IN Map(schemaItemToString(
                               entry.value,
                               JsBoolean(isOptional(attribute.optional,
                                                    entry.key))),
                             LAMBDA item : <<"'", entry.key, "': ">> \o item)],
                   <<",\n">>),
                 LAMBDA properties : <<"S.Record({">> \o properties \o <<"})">>)
        [] attribute.type = "query" ->
             Ok(relationToString(attribute.query, attribute.cardinality))
        [] OTHER -> invalidType(attribute.type),
      LAMBDA result :
        IF attribute.type \notin excludeOptional
        THEN wrapOptional(result, Truthy(optional))
        ELSE result)

(***************************************************************************)
(* The collection and module assemblers.  `indent` counts the two-space    *)
(* units of the indentation string.                                        *)
(***************************************************************************)
indentation == 1

RECURSIVE generateAttributeSchema(_, _, _, _)
generateAttributeSchema(path, attribute, optional, indent) ==
  IF Len(path) > 1
  THEN Map(generateAttributeSchema(Tail(path), attribute, optional,
                                   indent + indentation),
           LAMBDA nested :
             Indent(indent) \o <<"'", Head(path), "': {\n">> \o nested
             \o Indent(indent) \o <<"},\n">>)
  ELSE Map(schemaItemToString(attribute, optional),
           LAMBDA item :
             IF Len(path) = 0 THEN item
             ELSE Indent(indent) \o <<"'", path[1], "': ">> \o item
                  \o <<",\n">>)

generateAttributesSection(schema, indent) ==
  Map(JoinResults(
        [i \in 1..Len(OwnPropertyEntries(schema.properties)) |->
           LET entry == OwnPropertyEntries(schema.properties)[i]
           IN generateAttributeSchema(
                <<entry.key>>, entry.value,
                JsBoolean(isOptional(schema.optional, entry.key)),
                indent + indentation)],
        <<>>),
      LAMBDA attributes :
        Indent(indent) \o <<"schema: S.Schema({\n">> \o attributes
        \o Indent(indent) \o <<"}),\n">>)

\* every line break of the text followed by the indentation
Reindent(text, indent) ==
  Join([i \in 1..Len(text) |->
          IF text[i] = "\n" THEN <<"\n">> \o Indent(indent) ELSE <<text[i]>>],
       <<>>)

\* rules written only when they have a member
generateRulesSection_NonEmptyOnly(rules, indent) ==
  IF Truthy(rules) /\ Len(rules.entries) > 0
  THEN Indent(indent) \o <<"rules: ">>
       \o Reindent(JSONstringify(rules, 1, 0), indent)
  ELSE <<>>

generateRulesSection(rules, indent) ==
  IF Truthy(rules)
  THEN Indent(indent) \o <<"rules: ">>
       \o Reindent(JSONstringify(rules, 1, 0), indent)
  ELSE <<>>

\* indent.slice(0, -2)
SliceOffTwo(indent) == IF indent >= 1 THEN indent - 1 ELSE 0

collectionsDefinitionToFileContent(collectionsDefinition, indent) ==
  Map(JoinResults(
        [i \in 1..Len(OwnPropertyEntries(collectionsDefinition)) |->
           LET entry == OwnPropertyEntries(collectionsDefinition)[i]
           IN Map(generateAttributesSection(entry.value.schema,
                                            indent + indentation),
                  LAMBDA section :
                    Indent(indent) \o <<"'", entry.key, "': {\n">>
                    \o section
                    \o generateRulesSection(entry.value.rules,
                                            indent + indentation)
                    \o Indent(indent) \o <<"},\n">>)],
        <<>>),
      LAMBDA collections :
        <<"{\n">> \o collections \o Indent(SliceOffTwo(indent)) \o <<"}">>)

\* `schemaJSON?.collections ?? {}`: schemaJSON is a record with the
\* collections, or JsUndefined
schemaFileContentFromJSON(json) ==
  Map(collectionsDefinitionToFileContent(
        IF json = JsUndefined THEN <<>> ELSE json.collections, indentation),
      LAMBDA schemaContent :
        <<"/**\n * This file is auto-generated by the Triplit CLI.\n */ \n\n",
          "import { Schema as S } from '@triplit/db';\n",
          "export const schema = ">>
        \o schemaContent \o <<";", "\n">>)

(***************************************************************************)
(* The inputs.                                                             *)
(***************************************************************************)
SeqsUpTo(S, n) == UNION {[1..k -> S] : k \in 0..n}

\* the sequences of 1..n distinct keys, each with a value of Values
EntriesUpTo(Keys, Values, n) ==
  {[i \in 1..Len(ks) |-> [key |-> ks[i], value |-> vs[i]]] :
     <<ks, vs>> \in UNION {
       {ks \in [1..k -> Keys] : \A i, j \in 1..k : i # j => ks[i] # ks[j]}
         \X [1..k -> Values] : k \in 1..n}}

Literals ==
  {JsString(""), JsString("x"), JsNumber(0), JsNumber(7), JsBoolean(FALSE),
   JsBoolean(TRUE), JsNull}
\* values that are no literal: an array, an object that is no function call
NonLiterals == {JsArray(<<>>), JsObject(<<>>), [t |-> "function"]}

FunctionCall(name, args) ==
  JsObject(<<[key |-> "func", value |-> JsString(name)]>>
           \o (IF args = JsUndefined THEN <<>>
               ELSE <<[key |-> "args", value |-> args]>>))
FunctionNames == {"now", "uuid", "sum"}
ArgLists ==
  {JsUndefined} \cup
  {JsArray(a) : a \in SeqsUpTo({JsString("x"), JsNumber(0), JsObject(<<>>)},
                               MaxArgs)}
FunctionCalls == {FunctionCall(n, a) : n \in FunctionNames, a \in ArgLists}
DefaultValues == Literals \cup NonLiterals \cup FunctionCalls

Options(nullable, default) == [nullable |-> nullable, default |-> default]
NoOptions == Options(JsUndefined, JsUndefined)
AllOptions ==
  {Options(n, d) : n \in {JsUndefined, JsBoolean(TRUE), JsBoolean(FALSE)},
                   d \in {JsUndefined} \cup DefaultValues}

Primitive(type, options) == [type |-> type, options |-> options]
SetOf(items, options) == [type |-> "set", items |-> items, options |-> options]
RecordOf(properties, optional) ==
  [type |-> "record", properties |-> properties, optional |-> optional]
Relation(cardinality, query) ==
  [type |-> "query", query |-> query, cardinality |-> cardinality]

\* a query object with the fields that are not undefined
Query(collectionName, where, limit, order) ==
  JsObject(SelectSeq(<<[key |-> "collectionName", value |-> collectionName],
                       [key |-> "where", value |-> where],
                       [key |-> "limit", value |-> limit],
                       [key |-> "order", value |-> order]>>,
                     LAMBDA e : e.value # JsUndefined))
Triple(field, operator, value) ==
  JsArray(<<JsString(field), JsString(operator), value>>)
ById(value) == JsArray(<<Triple("id", "=", value)>>)

Wheres ==
  {JsUndefined, JsArray(<<>>), ById(JsString("42")), ById(JsNumber(42)),
   JsArray(<<Triple("id", "!=", JsString("42"))>>),
   JsArray(<<Triple("name", "=", JsString("42"))>>),
   JsArray(<<Triple("id", "=", JsString("42")),
             Triple("name", "=", JsString("x"))>>)}
Limits == {JsUndefined, JsNumber(0), JsNumber(1)}
Orders ==
  {JsUndefined, JsArray(<<>>),
   JsArray(<<JsArray(<<JsString("name"), JsString("ASC")>>)>>)}
Relations ==
  {Relation(c, Query(JsString(n), w, l, o)) :
     c \in {"one", "many"}, n \in {"users", ""}, w \in Wheres, l \in Limits,
     o \in Orders}

\* the queries without their collectionName
SubQueries ==
  {Query(JsUndefined, w, l, o) : w \in Wheres, l \in Limits, o \in Orders}

Primitives ==
  {Primitive(t, o) : t \in {"string", "boolean", "number", "date"},
                     o \in AllOptions}
\* a kind the serializer does not know
UnknownKind == Primitive("uuid", NoOptions)
PlainString == Primitive("string", NoOptions)
RelationById == Relation("one", Query(JsString("users"), ById(JsString("42")),
                                      JsUndefined, JsUndefined))
Sets ==
  {SetOf(i, o) :
     i \in {PlainString, Primitive("number", Options(JsBoolean(TRUE), JsUndefined)),
            UnknownKind},
     o \in {NoOptions, Options(JsBoolean(TRUE), JsUndefined),
            Options(JsUndefined, JsString("x")),
            Options(JsUndefined, FunctionCall("sum", JsUndefined))}}

PropertyKeys == {"a", "b", "1"}
KeyLists(keys) == JsArray([i \in 1..Len(keys) |-> JsString(keys[i])])
OptionalKeys ==
  {JsUndefined, KeyLists(<<>>), KeyLists(<<"a">>), KeyLists(<<"a", "b", "1">>)}
InnerRecord == RecordOf(<<[key |-> "a", value |-> PlainString]>>,
                        KeyLists(<<"a">>))
Records ==
  {RecordOf(<<>>, JsUndefined)} \cup
  {RecordOf(p, o) :
     p \in EntriesUpTo(PropertyKeys,
                       {PlainString, UnknownKind, RelationById, InnerRecord},
                       MaxProps),
     o \in OptionalKeys}

Attributes ==
  Primitives \cup {UnknownKind} \cup Sets \cup Records \cup Relations

(***************************************************************************)
(* The calls of the encoders: Init draws the function and its arguments,   *)
(* the action applies the function.                                        *)
(***************************************************************************)
NoResult == [ok |-> FALSE, text |-> <<>>, error |-> "pending"]
NoCall == [fn |-> "none"]
\* the triplit directory and its schema.ts: `formattedFrom` is the text that
\* was handed to the formatter, whose output the file holds
NoFile == [dir |-> FALSE, exists |-> FALSE, formattedFrom |-> <<>>]

InitEncode ==
  /\ pc = "called"
  /\ call \in
       {[fn |-> "schemaItemToString", attribute |-> a, optional |-> o] :
          a \in Attributes,
          o \in {JsUndefined, JsBoolean(TRUE), JsBoolean(FALSE)}}
       \cup {[fn |-> "defaultValueToString", defaultValue |-> d] :
               d \in DefaultValues}
       \cup {[fn |-> "valueOptionsToString", options |-> o] :
               o \in AllOptions}
       \cup {[fn |-> "subQueryToString", subquery |-> q] : q \in SubQueries}
  /\ ret = NoResult
  /\ schemaJSON = JsUndefined
  /\ fileContent = NoResult
  /\ thrown = "none"
  /\ schemaFile = NoFile

ApplySchemaItemToString ==
  /\ pc = "called"
  /\ call.fn = "schemaItemToString"
  /\ ret' = schemaItemToString(call.attribute, call.optional)
  /\ pc' = "returned"
  /\ UNCHANGED <<call, schemaJSON, fileContent, thrown, schemaFile>>

ApplyDefaultValueToString ==
  /\ pc = "called"
  /\ call.fn = "defaultValueToString"
  /\ ret' = defaultValueToString(call.defaultValue)
  /\ pc' = "returned"
  /\ UNCHANGED <<call, schemaJSON, fileContent, thrown, schemaFile>>

ApplyValueOptionsToString ==
  /\ pc = "called"
  /\ call.fn = "valueOptionsToString"
  /\ ret' = valueOptionsToString(call.options)
  /\ pc' = "returned"
  /\ UNCHANGED <<call, schemaJSON, fileContent, thrown, schemaFile>>

ApplySubQueryToString ==
  /\ pc = "called"
  /\ call.fn = "subQueryToString"
  /\ ret' = Ok(subQueryToString(call.subquery))
  /\ pc' = "returned"
  /\ UNCHANGED <<call, schemaJSON, fileContent, thrown, schemaFile>>

NextEncode ==
  \/ ApplySchemaItemToString
  \/ ApplyDefaultValueToString
  \/ ApplyValueOptionsToString
  \/ ApplySubQueryToString

SpecEncode == InitEncode /\ [][NextEncode]_vars

(***************************************************************************)
(* Properties of the encoders (SpecEncode).                                *)
(***************************************************************************)
Returned(fn) == pc = "returned" /\ call.fn = fn

RelationHeads == {"S.RelationById('", "S.RelationOne('", "S.RelationMany('"}

\* the query, apart from its collection, is exactly {where: [["id", "=", V]]}
ExactlyWhereIdEquals(query) ==
  LET where == Get(query, "where")
  IN /\ where.t = "array"
     /\ Len(where.elems) = 1
     /\ where.elems[1].elems[1] = JsString("id")
     /\ where.elems[1].elems[2] = JsString("=")
     /\ Get(query, "limit") = JsUndefined
     /\ Get(query, "order") = JsUndefined

RelationFormIs(byId) ==
  LET attribute == call.attribute
      head == Head(ret.text)
  IN /\ ret.ok
     /\ head = IF attribute.cardinality # "one" THEN "S.RelationMany('"
               ELSE IF byId THEN "S.RelationById('"
               ELSE "S.RelationOne('"

\* C1 (as stated): a relation is rendered in the compact RelationById form
\* if and only if its cardinality is one and its query, apart from the
\* target collection, is exactly {where: [["id", "=", V]]}; every other
\* one-cardinality relation is rendered as RelationOne, every
\* many-cardinality relation as RelationMany.
C1_ByIdIffExactQuery ==
  (Returned("schemaItemToString") /\ call.attribute.type = "query")
    => RelationFormIs(ExactlyWhereIdEquals(call.attribute.query))

\* C1 (amended): the same, with the compact form used only when the target
\* collection name is, in addition, not the empty string; a one-cardinality
\* by-id query on the empty collection name is rendered as RelationOne.
C1_ByIdIffExactQueryAndNamedTarget ==
  (Returned("schemaItemToString") /\ call.attribute.type = "query")
    => RelationFormIs(
         /\ ExactlyWhereIdEquals(call.attribute.query)
         /\ Get(call.attribute.query, "collectionName") # JsString(""))

\* C1 witness: the by-id relation to "users" with limit 1 added has been
\* rendered in the general one-cardinality form.
C1_Witness ==
  /\ Returned("schemaItemToString")
  /\ call.attribute =
       Relation("one", Query(JsString("users"), ById(JsString("42")),
                             JsNumber(1), JsUndefined))
  /\ Head(ret.text) = "S.RelationOne('"

IsFunctionCall(defaultValue) ==
  defaultValue.t = "object" /\ Get(defaultValue, "func").t = "string"

\* the arguments of the call are literals, as the data model has them
LiteralArgs(defaultValue) ==
  LET args == Get(defaultValue, "args")
  IN args # JsUndefined =>
       \A i \in 1..Len(args.elems) :
         args.elems[i].t \in {"string", "number", "boolean", "null"}

NoArgs(defaultValue) ==
  LET args == Get(defaultValue, "args")
  IN args = JsUndefined \/ Len(args.elems) = 0

\* C5: a function-call default (its arguments literals) is encoded if and
\* only if its name is "now" or "uuid"; with no arguments the text is the
\* zero-argument call S.Default.now() or S.Default.uuid(); any other name
\* fails with the error "Invalid default function name".
C5_DefaultFunctionAllowList ==
  (/\ Returned("defaultValueToString")
   /\ IsFunctionCall(call.defaultValue)
   /\ LiteralArgs(call.defaultValue))
    => LET name == Get(call.defaultValue, "func").s
       IN /\ ret.ok <=> name \in {"now", "uuid"}
          /\ ~ret.ok => ret.error = InvalidDefaultFunction /\ ret.text = <<>>
          /\ (ret.ok /\ NoArgs(call.defaultValue))
               => ret.text = <<"S.Default.", name, "(", ")">>

\* C5 witness: the default sum() has been refused.
C5_Witness ==
  /\ Returned("defaultValueToString")
  /\ call.defaultValue = FunctionCall("sum", JsArray(<<>>))
  /\ ~ret.ok

\* C10: a relation is never wrapped in S.Optional(...), whatever the
\* optional flag; every other attribute is wrapped exactly when the flag is
\* true, and the wrapped text is S.Optional( + the unwrapped text + ).
C10_RelationsNeverOptional ==
  (Returned("schemaItemToString") /\ ret.ok)
    => LET bare == schemaItemToString(call.attribute, JsBoolean(FALSE)).text
       IN /\ Head(bare) # "S.Optional("
          /\ IF call.attribute.type = "query"
             THEN ret.text = bare /\ Head(bare) \in RelationHeads
             ELSE ret.text = IF call.optional = JsBoolean(TRUE)
                             THEN <<"S.Optional(">> \o bare \o <<")">>
                             ELSE bare

\* C10 witness: a relation has been encoded with the optional flag true.
C10_Witness ==
  /\ Returned("schemaItemToString")
  /\ call.attribute.type = "query"
  /\ call.optional = JsBoolean(TRUE)
  /\ ret.ok

IsLiteral(value) == value.t \in {"string", "number", "boolean", "null"}

\* the default is a call of now or uuid with an argument that is no literal
CallWithNonLiteralArg(defaultValue) ==
  /\ IsFunctionCall(defaultValue)
  /\ Get(defaultValue, "func").s \in {"now", "uuid"}
  /\ ~LiteralArgs(defaultValue)

\* C11: a default that is a string, a number, a boolean or null is encoded
\* to its text; a value of any other type, given as the default itself or
\* as an argument of a default function call, fails with the error
\* "Invalid value", with no other error, and no text is returned.
C11_NonLiteralIsInvalidValue ==
  Returned("defaultValueToString")
    => /\ IsLiteral(call.defaultValue)
            => ret = valueToJS(call.defaultValue) /\ ret.ok
       /\ (\/ ~IsLiteral(call.defaultValue) /\ ~IsFunctionCall(call.defaultValue)
           \/ CallWithNonLiteralArg(call.defaultValue))
            => ~ret.ok /\ ret.text = <<>> /\ ret.error = InvalidValue

\* the text has the member of the object literal that starts with `head`
HasMember(text, head) == \E i \in 1..Len(text) : text[i] = head

\* C12: the subquery text of a general relation has each of where, limit
\* and order if and only if the field is present in the query, whatever
\* value the field holds (limit 0 and the empty where or order list
\* included); a present field is never dropped.
C12_SubQueryFieldsIffPresent ==
  Returned("subQueryToString")
    => /\ Head(ret.text) = "{" /\ ret.text[Len(ret.text)] = "}"
       /\ HasMember(ret.text, "where: ")
            <=> Get(call.subquery, "where") # JsUndefined
       /\ HasMember(ret.text, "limit: ")
            <=> Get(call.subquery, "limit") # JsUndefined
       /\ HasMember(ret.text, "order: ")
            <=> Get(call.subquery, "order") # JsUndefined

\* C13: the options text has a nullable entry if and only if nullable is
\* set, true or false, written as given, and a default entry if and only
\* if a default is present, the defaults null, false, 0 and "" included;
\* the entries are put in braces, and with neither entry the text is the
\* empty fragment, not {}.  A default that cannot be encoded fails the
\* call with the error of the default.
C13_OptionsEntriesIffSet ==
  Returned("valueOptionsToString")
    => LET nullable == call.options.nullable
           default == call.options.default
           encoded == defaultValueToString(default)
           nullableEntry ==
             IF nullable = JsUndefined THEN <<>>
             ELSE <<"nullable: ", IF nullable.b THEN "true" ELSE "false">>
           separator ==
             IF nullable # JsUndefined /\ default # JsUndefined
             THEN <<", ">> ELSE <<>>
           defaultEntry ==
             IF default = JsUndefined THEN <<>>
             ELSE <<"default: ">> \o encoded.text
       IN IF default # JsUndefined /\ ~encoded.ok
          THEN ret = encoded
          ELSE /\ ret.ok
               /\ ret.text =
                    IF nullable = JsUndefined /\ default = JsUndefined
                    THEN <<>>
                    ELSE <<"{">> \o nullableEntry \o separator
                         \o defaultEntry \o <<"}">>

\* C13 witness: the options {nullable: false, default: 0} have been encoded
\* with both entries.
C13_Witness ==
  /\ Returned("valueOptionsToString")
  /\ call.options = Options(JsBoolean(FALSE), JsNumber(0))
  /\ ret.text = <<"{", "nullable: ", "false", ", ", "default: ", "0", "}">>

(***************************************************************************)
(* The supported subset of the attributes: known kinds, literal or         *)
(* now/uuid defaults, sets, nested records, relations to a named           *)
(* collection with where, limit and order.                                 *)
(***************************************************************************)
SupportedDefaults ==
  Literals \cup
  {d \in FunctionCalls :
     /\ Get(d, "func").s \in {"now", "uuid"}
     /\ Get(d, "args") # JsUndefined
     /\ LiteralArgs(d)}
SupportedOptions ==
  {o \in AllOptions : o.default \in {JsUndefined} \cup SupportedDefaults}
SupportedAttributes ==
  {a \in Primitives : a.options \in SupportedOptions}
  \cup {a \in Sets : a.items # UnknownKind /\ a.options \in SupportedOptions}
  \cup {a \in Records :
          \A i \in 1..Len(a.properties) :
            /\ a.properties[i].value # UnknownKind
            /\ ~IsArrayIndex(a.properties[i].key)}
  \cup {a \in Relations : Get(a.query, "collectionName") # JsString("")}

\* the schema of one collection "todos" with the one property "a"
SchemaOf(attribute, optional) ==
  [collections |->
     <<[key |-> "todos",
        value |-> [schema |-> [properties |->
                                 <<[key |-> "a", value |-> attribute]>>,
                               optional |->
                                 IF Truthy(optional) THEN KeyLists(<<"a">>)
                                 ELSE JsUndefined],
                   rules |-> JsUndefined]]>>]

\* C7: round trip.  Loading the generated module yields the schema it was
\* generated from, so no two different schemas of the supported subset
\* have the same module text: whenever another supported attribute, put in
\* the place of the encoded one, gives the same text, it is that attribute.
C7_DifferentSchemasDifferentText ==
  (/\ Returned("schemaItemToString")
   /\ call.attribute \in SupportedAttributes)
    => \A other \in SupportedAttributes :
         (other.type = call.attribute.type
          /\ schemaFileContentFromJSON(SchemaOf(other, call.optional))
               = schemaFileContentFromJSON(
                   SchemaOf(call.attribute, call.optional)))
           => other = call.attribute

(***************************************************************************)
(* The generate command (Command.run): the schema resolved from the        *)
(* migrations is serialized, and the text is formatted and written to      *)
(* <triplit dir>/schema.ts.  Init draws the resolved schema and the state  *)
(* of the directory before the run.                                        *)
(***************************************************************************)
Tree(properties, optional) == [properties |-> properties, optional |-> optional]
Collection(schema, rules) == [schema |-> schema, rules |-> rules]

ReadPublic ==
  JsObject(<<[key |-> "filter",
              value |-> JsArray(<<Triple("public", "=", JsBoolean(TRUE))>>)]>>)
Rules ==
  {JsUndefined, JsObject(<<>>),
   JsObject(<<[key |-> "read", value |-> ReadPublic]>>),
   JsObject(<<[key |-> "write", value |-> JsObject(<<>>)],
              [key |-> "read", value |-> ReadPublic]>>)}

ModuleAttributes ==
  {PlainString, UnknownKind, SetOf(UnknownKind, NoOptions), RelationById,
   Primitive("string", Options(JsUndefined, FunctionCall("sum", JsArray(<<>>)))),
   Primitive("date", Options(JsUndefined,
                             FunctionCall("now", JsArray(<<JsObject(<<>>)>>)))),
   InnerRecord,
   RecordOf(<<[key |-> "b", value |-> PlainString],
              [key |-> "a", value |-> PlainString]>>, KeyLists(<<"b">>)),
   RecordOf(<<[key |-> "b", value |-> PlainString],
              [key |-> "1", value |-> RelationById]>>, JsUndefined),
   RecordOf(<<[key |-> "a", value |-> UnknownKind]>>, KeyLists(<<"a">>)),
   RecordOf(<<[key |-> "a", value |-> InnerRecord]>>, KeyLists(<<>>))}

\* the attributes that are put side by side in a tree of MaxProps properties
CoreAttributes ==
  {PlainString, UnknownKind, SetOf(UnknownKind, NoOptions), RelationById,
   InnerRecord,
   Primitive("string", Options(JsUndefined, FunctionCall("sum", JsArray(<<>>))))}

Trees ==
  {Tree(p, o) :
     p \in {<<>>}
           \cup EntriesUpTo(PropertyKeys, ModuleAttributes, MaxProps - 1)
           \cup EntriesUpTo(PropertyKeys, CoreAttributes, MaxProps),
     o \in OptionalKeys}
SmallTrees ==
  {Tree(<<>>, JsUndefined),
   Tree(<<[key |-> "a", value |-> PlainString]>>, KeyLists(<<"a">>))}
CollectionNames == {"todos", "users", "2", "1"}

Schemas ==
  {JsUndefined}
  \cup {[collections |-> <<[key |-> "todos",
                            value |-> Collection(t, JsUndefined)]>>] :
          t \in Trees}
  \cup {[collections |-> c] :
          c \in {<<>>} \cup
                EntriesUpTo(CollectionNames,
                            {Collection(t, r) : t \in SmallTrees, r \in Rules},
                            MaxCollections)}

PreviousFile == [dir |-> TRUE, exists |-> TRUE, formattedFrom |-> <<"previous">>]
EmptyDir == [dir |-> TRUE, exists |-> FALSE, formattedFrom |-> <<>>]

Init ==
  /\ pc = "run"
  /\ schemaJSON \in Schemas
  /\ schemaFile \in {NoFile, EmptyDir, PreviousFile}
  /\ fileContent = NoResult
  /\ thrown = "none"
  /\ call = NoCall
  /\ ret = NoResult

\* the serializer swallowing its error and handing on what it has
SchemaFileContentFromSchema_ErrorSwallowed ==
  /\ pc = "run"
  /\ \E result \in {schemaFileContentFromJSON(schemaJSON)} :
        /\ fileContent' = IF result.ok THEN result ELSE Ok(<<>>)
        /\ thrown' = result.error
        /\ pc' = "write"
  /\ UNCHANGED <<schemaJSON, schemaFile, call, ret>>

\* `const fileContent = await schemaFileContentFromMigrations(migrations)`:
\* the text, or the rejection of the run with the error thrown
SchemaFileContentFromSchema ==
  /\ pc = "run"
  /\ \E result \in {schemaFileContentFromJSON(schemaJSON)} :
        IF result.ok
        THEN /\ fileContent' = result
             /\ pc' = "write"
             /\ UNCHANGED thrown
        ELSE /\ thrown' = result.error
             /\ pc' = "rejected"
             /\ UNCHANGED fileContent
  /\ UNCHANGED <<schemaJSON, schemaFile, call, ret>>

\* `await writeSchemaFile(fileContent)`: the directory is made, the text is
\* formatted (the formatter may throw), the file is written
WriteSchemaFile ==
  /\ pc = "write"
  /\ \/ /\ schemaFile' = [dir |-> TRUE, exists |-> TRUE,
                          formattedFrom |-> fileContent.text]
        /\ pc' = "done"
        /\ UNCHANGED thrown
     \/ /\ schemaFile' = [schemaFile EXCEPT !.dir = TRUE]
        /\ thrown' = "format"
        /\ pc' = "rejected"
  /\ UNCHANGED <<schemaJSON, fileContent, call, ret>>

Next == SchemaFileContentFromSchema \/ WriteSchemaFile

Spec == Init /\ [][Next]_vars

(***************************************************************************)
(* Properties of the generate command (Spec).  The module text is read     *)
(* back token by token: a property starts with ', its key and ': ; a       *)
(* collection starts with ', its key and ': { .                            *)
(***************************************************************************)
SerializerErrors == {InvalidType, InvalidDefaultFunction, InvalidValue}

Generated == fileContent.ok

Collections(json) == IF json = JsUndefined THEN <<>> ELSE json.collections

Positions(text, At(_)) == SelectSeq([i \in 1..Len(text) |-> i], At)

PropertyAt(text, i) ==
  i + 3 <= Len(text) /\ text[i] = "'" /\ text[i + 2] = "': "

CollectionAt(text, i) ==
  i + 2 <= Len(text) /\ text[i] = "'" /\ text[i + 2] = "': {\n"

\* the order in which the entries are to be found in the text: x before y
\* when both keys are integer-like and x's is the smaller number, when only
\* x's key is integer-like, or when neither is and x was declared first
KeyNumber(key) == CHOOSE n \in 0..MaxIndexKey : ToString(n) = key

EmittedBefore(entries, x, y) ==
  LET kx == entries[x].key
      ky == entries[y].key
  IN IF IsArrayIndex(kx) /\ IsArrayIndex(ky) THEN KeyNumber(kx) < KeyNumber(ky)
     ELSE IF IsArrayIndex(kx) THEN TRUE
     ELSE IF IsArrayIndex(ky) THEN FALSE
     ELSE x < y

EmissionOrder(entries) ==
  [r \in 1..Len(entries) |->
     entries[CHOOSE x \in 1..Len(entries) :
               Cardinality({y \in 1..Len(entries) :
                              EmittedBefore(entries, y, x)}) = r - 1]]

\* the key is in the optional set of the tree
InOptionalSet(tree, key) ==
  /\ tree.optional # JsUndefined
  /\ \E j \in 1..Len(tree.optional.elems) :
       tree.optional.elems[j] = JsString(key)

\* the non-relation properties of the text, in the order of the text: the
\* key, and whether the text of the property starts with the optional marker
OptionalMarks(text) ==
  LET at == Positions(text, LAMBDA i : /\ PropertyAt(text, i)
                                       /\ text[i + 3] \notin RelationHeads)
  IN [k \in 1..Len(at) |->
        <<text[at[k] + 1], text[at[k] + 3] = "S.Optional(">>]

\* the non-relation properties of a tree, each followed by those of its own
\* tree when it is a record: the key, and whether the key is in the optional
\* set of the tree that directly holds the property
RECURSIVE OptionalMarksOfTree(_)
OptionalMarksOfTree(tree) ==
  LET entries == EmissionOrder(tree.properties)
  IN Join([i \in 1..Len(entries) |->
             LET attribute == entries[i].value
             IN (IF attribute.type = "query" THEN <<>>
                 ELSE << <<entries[i].key,
                           InOptionalSet(tree, entries[i].key)>> >>)
                \o (IF attribute.type = "record"
                    THEN OptionalMarksOfTree(Tree(attribute.properties,
                                                  attribute.optional))
                    ELSE <<>>)],
          <<>>)

OptionalMarksOfModule(json) ==
  LET entries == EmissionOrder(Collections(json))
  IN Join([i \in 1..Len(entries) |->
             OptionalMarksOfTree(entries[i].value.schema)], <<>>)

\* C2: every non-relation property, in the root tree of a collection and
\* in every nested record, is wrapped in S.Optional(...) if and only if
\* its key is in the optional set of the tree that directly holds it; the
\* optional set of no other tree counts.
C2_OptionalFromDirectContainer ==
  Generated => OptionalMarks(fileContent.text) = OptionalMarksOfModule(schemaJSON)

\* C2 witness: a module has been generated in which the key a is optional
\* in the root tree and not in the record nested under it, and the text has
\* the first a wrapped and the second not.
C2_Witness ==
  /\ Generated
  /\ Collections(schemaJSON) =
       <<[key |-> "todos",
          value |-> Collection(
            Tree(<<[key |-> "a",
                    value |-> RecordOf(<<[key |-> "a", value |-> InnerRecord]>>,
                                       KeyLists(<<>>))]>>,
                 KeyLists(<<"a">>)),
            JsUndefined)]>>
  /\ OptionalMarks(fileContent.text)
       = << <<"a", TRUE>>, <<"a", FALSE>>, <<"a", TRUE>> >>

\* the keys of the collections and of the properties, in the order of the
\* text
KeysInText(text) ==
  LET at == Positions(text, LAMBDA i : \/ PropertyAt(text, i)
                                       \/ CollectionAt(text, i))
  IN [k \in 1..Len(at) |-> text[at[k] + 1]]

\* the entries as they were declared, or in the order of the text
InOrder(entries, asDeclared) ==
  IF asDeclared THEN entries ELSE EmissionOrder(entries)

\* the keys of a tree, each followed by the keys of its own tree when it is
\* a record
RECURSIVE KeysOfTree(_, _)
KeysOfTree(properties, asDeclared) ==
  LET entries == InOrder(properties, asDeclared)
  IN Join([i \in 1..Len(entries) |->
             <<entries[i].key>>
             \o (IF entries[i].value.type = "record"
                 THEN KeysOfTree(entries[i].value.properties, asDeclared)
                 ELSE <<>>)],
          <<>>)

KeysOfModule(json, asDeclared) ==
  LET entries == InOrder(Collections(json), asDeclared)
  IN Join([i \in 1..Len(entries) |->
             <<entries[i].key>>
             \o KeysOfTree(entries[i].value.schema.properties, asDeclared)],
          <<>>)

\* C3 (as stated): for any key names, the collections of the module and
\* the properties of every tree, root or nested record, appear in the text
\* in exactly the order of their declaration.
C3_DeclarationOrderKept ==
  Generated => KeysInText(fileContent.text) = KeysOfModule(schemaJSON, TRUE)

\* C3 (amended): the collections and the properties of every tree appear in
\* the text in the order of their declaration, except that the keys that
\* are integer-like (canonical array indices such as "1") come first in
\* their tree, in ascending numeric order, before the other keys.
C3_DeclarationOrderKeptAfterIndexKeys ==
  Generated
    => KeysInText(fileContent.text) = KeysOfModule(schemaJSON, FALSE)

\* C3 witness: the module of a tree declared [b, a] has been generated, with
\* b before a.
C3_Witness ==
  /\ Generated
  /\ Collections(schemaJSON) =
       <<[key |-> "todos",
          value |-> Collection(
            Tree(<<[key |-> "b", value |-> PlainString],
                   [key |-> "a", value |-> PlainString]>>, JsUndefined),
            JsUndefined)]>>
  /\ KeysInText(fileContent.text) = <<"todos", "b", "a">>

KnownKinds == {"string", "boolean", "number", "date", "set", "record", "query"}

\* the attribute, the item type of the set or a property of the record,
\* at any depth, is of no known kind
RECURSIVE UnknownKindIn(_)
UnknownKindIn(attribute) ==
  CASE attribute.type \notin KnownKinds -> TRUE
    [] attribute.type = "set" -> UnknownKindIn(attribute.items)
    [] attribute.type = "record" ->
         \E i \in 1..Len(attribute.properties) :
           UnknownKindIn(attribute.properties[i].value)
    [] OTHER -> FALSE

\* the default is neither a literal nor a call of now or uuid on literals
InvalidDefault(default) ==
  /\ default # JsUndefined
  /\ \/ default.t \in {"array", "function"}
     \/ /\ default.t = "object"
        /\ \/ Get(default, "func") \notin {JsString("now"), JsString("uuid")}
           \/ ~LiteralArgs(default)

RECURSIVE InvalidDefaultIn(_)
InvalidDefaultIn(attribute) ==
  CASE attribute.type \in {"string", "boolean", "number", "date"} ->
         InvalidDefault(attribute.options.default)
    [] attribute.type = "set" ->
         \/ InvalidDefault(attribute.options.default)
         \/ InvalidDefaultIn(attribute.items)
    [] attribute.type = "record" ->
         \E i \in 1..Len(attribute.properties) :
           InvalidDefaultIn(attribute.properties[i].value)
    [] OTHER -> FALSE

\* the attributes that are the properties of the root trees
RootAttributes(json) ==
  {Collections(json)[c].value.schema.properties[i].value :
     <<c, i>> \in {<<c, i>> \in (1..Len(Collections(json))) \X (1..MaxProps + 1) :
                     i <= Len(Collections(json)[c].value.schema.properties)}}

\* C4: an attribute of no known kind, as a root property, as a property of
\* a nested record or as the item type of a set, makes the run fail: no
\* text is produced for the module, and the error is "Invalid type"
\* whenever the schema has no other defect.
C4_UnknownKindIsHardStop ==
  (pc # "run" /\ \E a \in RootAttributes(schemaJSON) : UnknownKindIn(a))
    => /\ pc = "rejected"
       /\ fileContent = NoResult
       /\ thrown \in SerializerErrors
       /\ (\A a \in RootAttributes(schemaJSON) : ~InvalidDefaultIn(a))
            => thrown = InvalidType

\* C4 witness: the run on a schema with the unknown kind as the item type
\* of a set, beside a valid property, has been rejected with "Invalid type".
C4_Witness ==
  /\ pc = "rejected"
  /\ thrown = InvalidType
  /\ SetOf(UnknownKind, NoOptions) \in RootAttributes(schemaJSON)
  /\ PlainString \in RootAttributes(schemaJSON)

\* C6: in every run in which the serializer throws, the error reaches the
\* caller (the run ends rejected with that error), no module text is
\* returned, and the step leaves the schema file and its directory as they
\* were; the file is written only in a step taken from a state that holds
\* the text of a completed serialization, and it is written from that text.
C6_PersistedOnlyAfterSuccess ==
  /\ [](thrown \in SerializerErrors
          => pc = "rejected" /\ fileContent = NoResult)
  /\ [][/\ thrown' \in SerializerErrors
             => schemaFile' = schemaFile /\ thrown = "none" /\ pc = "run"
        /\ schemaFile' # schemaFile
             => /\ fileContent.ok
                /\ schemaFile'.exists /\ schemaFile.exists # schemaFile'.exists
                     => schemaFile'.formattedFrom = fileContent.text]_vars

\* C6 witness: a run over a previous schema file has been rejected with the
\* error of an invalid default function, the file as it was.
C6_Witness ==
  /\ pc = "rejected"
  /\ thrown = InvalidDefaultFunction
  /\ schemaFile = PreviousFile

WhiteSpace == {"\n", "  ", " "}

\* the value as a literal without white space, its members in the order
\* they have in the value
RECURSIVE StructuralLiteral(_)
StructuralLiteral(value) ==
  CASE value.t = "string" -> <<"\"", value.s, "\"">>
    [] value.t = "number" -> <<ToString(value.n)>>
    [] value.t = "boolean" -> IF value.b THEN <<"true">> ELSE <<"false">>
    [] value.t = "null" -> <<"null">>
    [] value.t = "array" ->
         <<"[">>
         \o Join([i \in 1..Len(value.elems) |->
                    StructuralLiteral(value.elems[i])], <<",">>)
         \o <<"]">>
    [] value.t = "object" ->
         <<"{">>
         \o Join([i \in 1..Len(value.entries) |->
                    <<"\"", value.entries[i].key, "\"", ":">>
                    \o StructuralLiteral(value.entries[i].value)], <<",">>)
         \o <<"}">>

\* the rules member of the k-th collection of the text: nothing, or "rules"
\* and the text of the member up to the end of the collection, its white
\* space taken out
RulesInText(text) ==
  LET starts == Positions(text, LAMBDA i : CollectionAt(text, i))
      end(k) == IF k < Len(starts) THEN starts[k + 1] - 1 ELSE Len(text)
      member(segment) ==
        IF \E r \in 1..Len(segment) : segment[r] = "rules: "
        THEN LET r == CHOOSE r \in 1..Len(segment) : segment[r] = "rules: "
                 e == CHOOSE e \in (r + 1)..Len(segment) :
                        /\ segment[e] = "},\n"
                        /\ \A d \in (r + 1)..(e - 1) : segment[d] # "},\n"
             IN <<"rules">>
                \o SelectSeq(SubSeq(segment, r + 1, e - 1),
                             LAMBDA token : token \notin WhiteSpace)
        ELSE <<>>
  IN [k \in 1..Len(starts) |-> member(SubSeq(text, starts[k], end(k)))]

RulesOfModule(json) ==
  LET entries == EmissionOrder(Collections(json))
  IN [k \in 1..Len(entries) |->
        IF entries[k].value.rules = JsUndefined THEN <<>>
        ELSE <<"rules">> \o StructuralLiteral(entries[k].value.rules)]

\* C8: a collection has a rules member in the text if and only if its
\* definition has a rules value, and the text of the member is the literal
\* of exactly that value, with the same keys, operators, values, nesting
\* and order, changed only in white space.
C8_RulesEchoed ==
  Generated => RulesInText(fileContent.text) = RulesOfModule(schemaJSON)

\* C8 witness: a module has been generated for a collection with the rules
\* {read: {filter: [["public", "=", true]]}} and one with the empty rules {}.
C8_Witness ==
  /\ Generated
  /\ Len(Collections(schemaJSON)) = 2
  /\ Collections(schemaJSON)[1].key = "todos"
  /\ Collections(schemaJSON)[1].value.rules
       = JsObject(<<[key |-> "read", value |-> ReadPublic]>>)
  /\ Collections(schemaJSON)[2].key = "users"
  /\ Collections(schemaJSON)[2].value.rules = JsObject(<<>>)
  /\ RulesInText(fileContent.text)[2] = <<"rules", "{", "}">>

====
